---- MODULE Spec2Model ----
(***************************************************************************)
(* Kobi (src/kobi.py): a prompt_toolkit full-screen editor.  The editing   *)
(* state lives in editor.buffer (a prompt_toolkit Buffer): the text, the   *)
(* cursor offset, the selection state and the undo/redo stacks of          *)
(* (text, cursor_position) snapshots.  kobi.py adds nine key handlers      *)
(* (kb.add) plus a global status message; typing, cursor motion, set-mark  *)
(* and kill-line come from the default bindings of Application.            *)
(*                                                                         *)
(* Every key press is dispatched by the KeyProcessor: because kobi.py      *)
(* registers its handlers with kb.add("c-..") and no save_before argument, *)
(* the processor calls buffer.save_to_undo_stack() (which also clears the  *)
(* redo stack) BEFORE the handler body runs.  Text is a sequence of        *)
(* one-character strings; offsets are 0-based as in Python.                *)
(***************************************************************************)
EXTENDS Integers, Sequences, FiniteSets, TLC

VARIABLES text, cursor, selection, undo_stack, redo_stack, clipboard,
          message, disk, previous_handler, raised, running,
          last, snaps, undos, script, linear, content

vars == <<text, cursor, selection, undo_stack, redo_stack, clipboard,
          message, disk, previous_handler, raised, running,
          last, snaps, undos, script, linear, content>>

(* ------------------------------ bounds --------------------------------- *)
MaxLen == 2
MaxUndo == 3
MaxRun == 2

NL == "\n"
TypedChars == {"h"}
NoSelection == -1

(* Python slicing s[a:b] on 0-based offsets, and s[a:] *)
Slice(s, a, b) == SubSeq(s, a + 1, b)
Min(a, b) == IF a < b THEN a ELSE b
Max(a, b) == IF a > b THEN a ELSE b

(* ------------------------------ files ---------------------------------- *)
NotFound == [exists |-> FALSE, data |-> <<>>]
File(s) == [exists |-> TRUE, data |-> s]
InitialFiles == {NotFound, File(<<"h", NL>>)}

load_file(f) == IF f.exists THEN f.data ELSE <<>>

(* save_file: the file after open(name, "w") and f.write(editor.text) *)
save_file_keeps(f, t) == f
save_file(f, t) == File(t)

(* ---------------------------- messages --------------------------------- *)
Msg(tag) == [tag |-> tag, n |-> 0]
LineMsg(n) == [tag |-> "Line", n |-> n]

(* ---------------------------- Document --------------------------------- *)
RECURSIVE SplitLines(_)
SplitLines(s) ==
    IF \A i \in 1..Len(s) : s[i] # NL THEN <<s>>
    ELSE LET i == CHOOSE j \in 1..Len(s) :
                     s[j] = NL /\ \A k \in 1..(j - 1) : s[k] # NL
         IN <<SubSeq(s, 1, i - 1)>> \o SplitLines(SubSeq(s, i + 1, Len(s)))

RECURSIVE CumulativeStarts(_, _)
CumulativeStarts(lines, pos) ==
    IF lines = <<>> THEN <<>>
    ELSE <<pos>> \o CumulativeStarts(Tail(lines), pos + Len(Head(lines)) + 1)

line_start_indexes(s) == CumulativeStarts(SplitLines(s), 0)
line_count(s) == Len(SplitLines(s))

(* Python list indexing lst[row]: negative rows count from the end,       *)
(* anything outside -len..len-1 raises IndexError.                        *)
IndexOk(n, row) == row >= 0 - n /\ row < n
PyIndex(lst, row) == IF row >= 0 THEN lst[row + 1] ELSE lst[Len(lst) + row + 1]

translate_row_col_to_index_col0(s, row, col) ==
    LET starts == line_start_indexes(s)
        r == IF IndexOk(Len(starts), row) THEN row
             ELSE IF row < 0 THEN 0 ELSE 0 - 1
    IN Max(0, Min(PyIndex(starts, r), Len(s)))

translate_row_col_to_index(s, row, col) ==
    LET lines == SplitLines(s)
        starts == line_start_indexes(s)
        n == Len(lines)
        r == IF IndexOk(n, row) THEN row
             ELSE IF row < 0 THEN 0 ELSE 0 - 1
        result == PyIndex(starts, r) + Max(0, Min(col, Len(PyIndex(lines, r))))
    IN Max(0, Min(result, Len(s)))

(* bisect_right(indexes, index) - 1 *)
cursor_position_row(s, index) ==
    Cardinality({k \in 1..Len(line_start_indexes(s)) :
                    line_start_indexes(s)[k] <= index}) - 1
cursor_position_col(s, index) ==
    index - line_start_indexes(s)[cursor_position_row(s, index) + 1]

current_line_after_cursor(s, index) ==
    LET row == cursor_position_row(s, index)
        col == cursor_position_col(s, index)
        line == SplitLines(s)[row + 1]
    IN SubSeq(line, col + 1, Len(line))

(* ------------------------------ Buffer --------------------------------- *)
Entry(t, p) == [text |-> t, pos |-> p]
Top(stack) == stack[Len(stack)]
Pop(stack) == SubSeq(stack, 1, Len(stack) - 1)

(* Buffer.save_to_undo_stack: the undo stack afterwards *)
save_to_undo_stack(stack, t, p) ==
    IF stack # <<>> /\ Top(stack).text = t
    THEN Append(Pop(stack), Entry(t, p))
    ELSE Append(stack, Entry(t, p))

(* Buffer.undo: pop until an entry whose text differs from the current text *)
undo_scan_top(stack, t) ==
    IF stack = <<>> THEN [hit |-> FALSE, stack |-> <<>>, entry |-> Entry(t, 0)]
    ELSE [hit |-> TRUE, stack |-> Pop(stack), entry |-> Top(stack)]

RECURSIVE undo_scan(_, _)
undo_scan(stack, t) ==
    IF stack = <<>> THEN [hit |-> FALSE, stack |-> <<>>, entry |-> Entry(t, 0)]
    ELSE IF Top(stack).text # t
         THEN [hit |-> TRUE, stack |-> Pop(stack), entry |-> Top(stack)]
         ELSE undo_scan(Pop(stack), t)


(* Buffer.redo on stacks (u, r): [hit, undo, redo, entry] *)
redo_result(u, r, t, p) ==
    IF r # <<>>
    THEN [hit |-> TRUE, undo |-> save_to_undo_stack(u, t, p),
          redo |-> Pop(r), entry |-> Top(r)]
    ELSE [hit |-> FALSE, undo |-> u, redo |-> r, entry |-> Entry(t, p)]

(* Buffer.insert_text(data): text and cursor afterwards *)
insert_text_overshoot(t, p, data) ==
    Entry(Slice(t, 0, p) \o data \o Slice(t, p, Len(t)), p + Len(data) + 1)
insert_text(t, p, data) ==
    Entry(Slice(t, 0, p) \o data \o Slice(t, p, Len(t)), p + Len(data))

(* Buffer.cursor_position setter: clamp into 0..len(text) *)
clamp_cursor(t, value) == Max(0, Min(value, Len(t)))

(* ---------------------------- prompts ---------------------------------- *)
Digits == {"0", "1", "2", "9"}
DigitVal(d) == CASE d = "0" -> 0 [] d = "1" -> 1 [] d = "2" -> 2 [] d = "9" -> 9
LineStrs == {<<>>, <<"x">>, <<"0">>, <<"1">>, <<"1", "9">>}
Terms == {<<>>, <<"h">>}

isdigit(s) == s # <<>> /\ \A k \in 1..Len(s) : s[k] \in Digits
RECURSIVE int(_)
int(s) == IF s = <<>> THEN 0
          ELSE 10 * int(SubSeq(s, 1, Len(s) - 1)) + DigitVal(s[Len(s)])

(* --------------------------- key dispatch ------------------------------ *)
(* Binding.save_before: kb.add(..) leaves the default (lambda e: True);   *)
(* only the default self-insert binding uses if_no_repeat.                *)
save_before_untracked(handler, is_repeat) ==
    handler \notin {"self-insert", "c-v"}
save_before(handler, is_repeat) ==
    IF handler = "self-insert" THEN ~is_repeat ELSE TRUE

is_repeat(handler) == handler = previous_handler

(* undo / redo stacks as the handler body finds them *)
PreUndo(handler) ==
    IF save_before(handler, is_repeat(handler))
    THEN save_to_undo_stack(undo_stack, text, cursor) ELSE undo_stack
PreRedo_kept(handler) == redo_stack
PreRedo(handler) ==
    IF save_before(handler, is_repeat(handler)) THEN <<>> ELSE redo_stack

Dispatch(handler) == running /\ Len(PreUndo(handler)) <= MaxUndo

(* handler returned normally / raised (KeyProcessor.reset on exception) *)
Returned(handler) == raised' = "none" /\ previous_handler' = handler
Raised(exc) == raised' = exc /\ previous_handler' = "none"

SetDocument(t, p) ==
    /\ text' = t
    /\ cursor' = Max(0, p)
    /\ selection' = IF t # text THEN NoSelection ELSE selection

(* ------------------- observation of the command history ---------------- *)
Take(s, n) == SubSeq(s, 1, Min(n, Len(s)))
EditCmds == {"Type", "Paste", "Cut"}

(* content: the text loaded at start-up (never reassigned).              *)
(* last: the most recent command, its prompt input / typed character,    *)
(* whether it changed the text, and the text and cursor it started from. *)
(* snaps: the states before each of the latest consecutive text-changing *)
(* edits (most recent first; own = an undo snapshot was saved before it) *)
(* undos: the number of Undo commands issued right after those edits.    *)
(* linear: 1 after an Undo that changed the text, 2 after a text-changing *)
(* edit made right then, 3 after a Redo issued right after that edit.     *)
Track(cmd, arg) ==
    /\ content' = content
    /\ last' = [cmd |-> cmd, arg |-> arg, changed |-> text' # text,
                text |-> text, pos |-> cursor]
    /\ IF cmd \in EditCmds /\ text' # text
       THEN /\ snaps' = Take(<<[text |-> text, pos |-> cursor,
                                own |-> undo_stack' # undo_stack]>>
                               \o (IF undos = 0 THEN snaps ELSE <<>>), MaxRun)
            /\ undos' = 0
       ELSE IF cmd = "Undo" /\ undos < Len(snaps)
            THEN snaps' = snaps /\ undos' = undos + 1
            ELSE snaps' = <<>> /\ undos' = 0
    /\ linear' = IF cmd = "Undo" /\ text' # text THEN 1
                 ELSE IF linear = 1 /\ cmd \in EditCmds /\ text' # text THEN 2
                 ELSE IF linear = 2 /\ cmd = "Redo" THEN 3
                 ELSE 0

ScriptStep(cmd, arg) ==
    script' = IF script = 0 /\ cmd = "Type" /\ arg = "h" THEN 1
              ELSE IF script = 1 /\ cmd = "Type" /\ arg = "h" THEN 2
              ELSE IF script = 2 /\ cmd = "SaveOk" THEN 3
              ELSE IF script = 3 /\ cmd = "Undo" THEN 4
              ELSE IF script = 4 /\ cmd = "Undo" THEN 5
              ELSE 0 - 1

(* ------------------------------ Init ----------------------------------- *)
Init ==
    /\ disk \in InitialFiles
    /\ content = load_file(disk)
    /\ text = content
    /\ cursor = 0
    /\ selection = NoSelection
    /\ undo_stack = <<>>
    /\ redo_stack = <<>>
    /\ clipboard = <<>>
    /\ message = Msg("")
    /\ previous_handler = "none"
    /\ raised = "none"
    /\ running = TRUE
    /\ last = [cmd |-> "Load", arg |-> <<>>, changed |-> FALSE,
                text |-> <<>>, pos |-> 0]
    /\ snaps = <<>>
    /\ undos = 0
    /\ script = IF disk.exists THEN 0 - 1 ELSE 0
    /\ linear = 0


(* ------------------------- kobi.py key handlers ------------------------ *)
(* Ctrl+S: save_file(filename).  open(name, "w") truncates the file in    *)
(* place before f.write runs; either call can raise OSError.              *)
SaveOutcomes == {"ok", "open_fails", "write_fails"}

KeySave ==
    /\ Dispatch("c-s")
    /\ \E outcome \in SaveOutcomes :
         \/ /\ outcome = "ok"
            /\ disk' = save_file(disk, text)
            /\ message' = Msg("Saved")
            /\ Returned("c-s")
            /\ ScriptStep("SaveOk", "")
         \/ /\ outcome = "open_fails"
            /\ disk' = disk
            /\ message' = message
            /\ Raised("OSError")
            /\ ScriptStep("SaveFailed", "")
         \/ /\ outcome = "write_fails"
            /\ \E k \in 0..(Len(text) - 1) : disk' = File(Slice(text, 0, k))
            /\ message' = message
            /\ Raised("OSError")
            /\ ScriptStep("SaveFailed", "")
    /\ undo_stack' = PreUndo("c-s")
    /\ redo_stack' = PreRedo("c-s")
    /\ UNCHANGED <<text, cursor, selection, clipboard, running>>
    /\ Track("Save", <<>>)

(* Ctrl+Q: event.app.exit() *)
KeyQuit ==
    /\ Dispatch("c-q")
    /\ running' = FALSE
    /\ undo_stack' = PreUndo("c-q")
    /\ redo_stack' = PreRedo("c-q")
    /\ Returned("c-q")
    /\ UNCHANGED <<text, cursor, selection, clipboard, message, disk>>
    /\ Track("Quit", <<>>)
    /\ ScriptStep("Quit", "")

(* Ctrl+F: a non-empty term reaches editor.buffer.search_state, an        *)
(* attribute Buffer does not have: AttributeError before anything changes *)
KeyFind ==
    /\ Dispatch("c-f")
    /\ \E term \in Terms :
         /\ IF term # <<>> THEN Raised("AttributeError") ELSE Returned("c-f")
         /\ undo_stack' = PreUndo("c-f")
         /\ redo_stack' = PreRedo("c-f")
         /\ UNCHANGED <<text, cursor, selection, clipboard, message, disk,
                        running>>
         /\ Track("Find", term)
    /\ ScriptStep("Find", "")

(* Ctrl+G *)
KeyGoTo ==
    /\ Dispatch("c-g")
    /\ \E line_str \in LineStrs :
         /\ IF isdigit(line_str)
            THEN LET line == int(line_str) - 1 IN
                 /\ cursor' = clamp_cursor(text,
                                  translate_row_col_to_index(text, line, 0))
                 /\ message' = LineMsg(line + 1)
            ELSE UNCHANGED <<cursor, message>>
         /\ undo_stack' = PreUndo("c-g")
         /\ redo_stack' = PreRedo("c-g")
         /\ Returned("c-g")
         /\ UNCHANGED <<text, selection, clipboard, disk, running>>
         /\ Track("GoTo", line_str)
    /\ ScriptStep("GoTo", "")

(* Ctrl+C: with a selection, buf.document.selection_range_text is read,   *)
(* an attribute Document does not have: AttributeError                    *)
KeyCopy ==
    /\ Dispatch("c-c")
    /\ IF selection # NoSelection
       THEN Raised("AttributeError") /\ message' = message
       ELSE Returned("c-c") /\ message' = Msg("No Selection")
    /\ undo_stack' = PreUndo("c-c")
    /\ redo_stack' = PreRedo("c-c")
    /\ UNCHANGED <<text, cursor, selection, clipboard, disk, running>>
    /\ Track("Copy", <<>>)
    /\ ScriptStep("Copy", "")

KeyCut_unguarded ==
    /\ Dispatch("c-x")
    /\ Raised("AttributeError")
    /\ undo_stack' = PreUndo("c-x")
    /\ redo_stack' = PreRedo("c-x")
    /\ UNCHANGED <<text, cursor, selection, clipboard, message, disk, running>>
    /\ Track("Cut", <<>>)
    /\ ScriptStep("Cut", "")

(* Ctrl+X: same attribute read as Ctrl+C, before set_data and             *)
(* buf.delete_selection() are reached                                     *)
KeyCut ==
    /\ Dispatch("c-x")
    /\ IF selection # NoSelection
       THEN Raised("AttributeError") /\ message' = message
       ELSE Returned("c-x") /\ message' = Msg("No Selection")
    /\ undo_stack' = PreUndo("c-x")
    /\ redo_stack' = PreRedo("c-x")
    /\ UNCHANGED <<text, cursor, selection, clipboard, disk, running>>
    /\ Track("Cut", <<>>)
    /\ ScriptStep("Cut", "")

(* Ctrl+V *)
KeyPaste ==
    /\ Dispatch("c-v")
    /\ Len(text) + Len(clipboard) <= MaxLen
    /\ IF clipboard # <<>>
       THEN LET d == insert_text(text, cursor, clipboard) IN
            /\ SetDocument(d.text, d.pos)
            /\ message' = Msg("Pasted")
       ELSE UNCHANGED <<text, cursor, selection, message>>
    /\ undo_stack' = PreUndo("c-v")
    /\ redo_stack' = PreRedo("c-v")
    /\ Returned("c-v")
    /\ UNCHANGED <<clipboard, disk, running>>
    /\ Track("Paste", <<>>)
    /\ ScriptStep("Paste", "")

(* Ctrl+Z *)
KeyUndo ==
    /\ Dispatch("c-z")
    /\ LET r == undo_scan(PreUndo("c-z"), text) IN
         /\ undo_stack' = r.stack
         /\ IF r.hit
            THEN /\ redo_stack' = Append(PreRedo("c-z"), Entry(text, cursor))
                 /\ SetDocument(r.entry.text, r.entry.pos)
            ELSE /\ redo_stack' = PreRedo("c-z")
                 /\ UNCHANGED <<text, cursor, selection>>
    /\ message' = Msg("Undo")
    /\ Returned("c-z")
    /\ UNCHANGED <<clipboard, disk, running>>
    /\ Track("Undo", <<>>)
    /\ ScriptStep("Undo", "")

(* Ctrl+Y *)
KeyRedo ==
    /\ Dispatch("c-y")
    /\ LET r == redo_result(PreUndo("c-y"), PreRedo("c-y"), text, cursor) IN
         /\ undo_stack' = r.undo
         /\ redo_stack' = r.redo
         /\ IF r.hit
            THEN SetDocument(r.entry.text, r.entry.pos)
            ELSE UNCHANGED <<text, cursor, selection>>
    /\ message' = Msg("Redo")
    /\ Returned("c-y")
    /\ UNCHANGED <<clipboard, disk, running>>
    /\ Track("Redo", <<>>)
    /\ ScriptStep("Redo", "")

(* ---------------- default bindings of Application / TextArea ----------- *)
(* emacs_insert_mode: the editing bindings are off while a selection is on *)
insert_mode == selection = NoSelection

(* Keys.Any -> self-insert *)
KeyAny ==
    /\ Dispatch("self-insert")
    /\ insert_mode
    /\ Len(text) < MaxLen
    /\ \E c \in TypedChars :
         LET d == insert_text(text, cursor, <<c>>) IN
         /\ SetDocument(d.text, d.pos)
         /\ undo_stack' = PreUndo("self-insert")
         /\ redo_stack' = PreRedo("self-insert")
         /\ Returned("self-insert")
         /\ UNCHANGED <<clipboard, message, disk, running>>
         /\ Track("Type", <<c>>)
         /\ ScriptStep("Type", c)

(* left -> backward-char: stays on the line *)
KeyLeft ==
    /\ Dispatch("left")
    /\ cursor' = clamp_cursor(text,
                     cursor - Min(1, cursor_position_col(text, cursor)))
    /\ undo_stack' = PreUndo("left")
    /\ redo_stack' = PreRedo("left")
    /\ Returned("left")
    /\ UNCHANGED <<text, selection, clipboard, message, disk, running>>
    /\ Track("Left", <<>>)
    /\ ScriptStep("Left", "")

(* c-@ (Ctrl+Space) -> start_selection when the buffer is not empty *)
KeySetMark ==
    /\ Dispatch("c-@")
    /\ selection' = IF text # <<>> THEN cursor ELSE selection
    /\ undo_stack' = PreUndo("c-@")
    /\ redo_stack' = PreRedo("c-@")
    /\ Returned("c-@")
    /\ UNCHANGED <<text, cursor, clipboard, message, disk, running>>
    /\ Track("SetMark", <<>>)
    /\ ScriptStep("SetMark", "")

(* c-k -> kill-line: delete to the end of the line (or the newline) and   *)
(* put the deleted text on the clipboard                                  *)
KeyKillLine ==
    /\ Dispatch("c-k")
    /\ insert_mode
    /\ LET count == IF cursor < Len(text) /\ text[cursor + 1] = NL THEN 1
                    ELSE Len(current_line_after_cursor(text, cursor))
           deleted == IF cursor < Len(text)
                      THEN Slice(text, cursor, Min(Len(text), cursor + count))
                      ELSE <<>>
       IN /\ SetDocument(Slice(text, 0, cursor)
                           \o Slice(text, cursor + Len(deleted), Len(text)),
                         cursor)
          /\ clipboard' = deleted
    /\ undo_stack' = PreUndo("c-k")
    /\ redo_stack' = PreRedo("c-k")
    /\ Returned("c-k")
    /\ UNCHANGED <<message, disk, running>>
    /\ Track("KillLine", <<>>)
    /\ ScriptStep("KillLine", "")

Next ==
    \/ KeySave \/ KeyQuit \/ KeyFind \/ KeyGoTo \/ KeyCopy \/ KeyCut
    \/ KeyPaste \/ KeyUndo \/ KeyRedo
    \/ KeyAny \/ KeyLeft \/ KeySetMark \/ KeyKillLine

Spec == Init /\ [][Next]_vars

TypeOK ==
    /\ Len(text) <= MaxLen
    /\ cursor \in 0..Len(text)
    /\ Len(undo_stack) <= MaxUndo


(* ======================= properties of the editor ======================= *)

(* C1: when an Undo has just changed the buffer, an immediately following  *)
(* Redo restores the text and cursor that held just before that Undo.      *)
C1_RedoInvertsUndo ==
    [][(last.cmd = "Undo" /\ last.changed /\ last'.cmd = "Redo")
          => (text' = last.text /\ cursor' = last.pos)]_vars

C4_GoToLineOutOfRange ==
    [][(last'.cmd = "GoTo" /\ isdigit(last'.arg)
          /\ int(last'.arg) > line_count(text))
          => (cursor' = cursor /\ text' = text)]_vars

(* C5: every Save either succeeds with the file equal to the buffer text,  *)
(* or fails with an error raised, the buffer and cursor unchanged and the  *)
(* file exactly as it was before the Save.                                 *)
C5_SaveAtomic ==
    [][last'.cmd = "Save"
          => \/ (raised' = "none" /\ disk' = File(text) /\ message' = Msg("Saved"))
             \/ (raised' # "none" /\ text' = text /\ cursor' = cursor
                   /\ disk' = disk)]_vars

(* C6: after loading a nonexistent file the buffer is one empty line;      *)
(* after typing two characters and a successful Save the file holds them;  *)
(* two Undo commands then empty the buffer while the file keeps them.      *)
C6_LoadTypeSaveUndo ==
    /\ script = 0 => (text = <<>> /\ SplitLines(text) = << <<>> >>)
    /\ script = 2 => text = <<"h", "h">>
    /\ script \in {3, 4, 5} => disk = File(<<"h", "h">>)
    /\ script = 5 => (text = <<>> /\ SplitLines(text) = << <<>> >>)

C6_Witness == script = 5 /\ last.cmd = "Undo" /\ disk.exists

(* C7: a Find whose prompt returns the empty term, and a Go-to-line whose  *)
(* prompt returns an empty or non-numeric string, change neither the text, *)
(* the cursor, the undo stack nor the redo stack.                          *)
C7_AbortedPromptChangesNothing ==
    [][(\/ (last'.cmd = "Find" /\ last'.arg = <<>>)
        \/ (last'.cmd = "GoTo" /\ ~isdigit(last'.arg)))
          => UNCHANGED <<text, cursor, undo_stack, redo_stack>>]_vars

(* C8: a Find step moves the cursor to the first match strictly after the  *)
(* cursor, or to the first match of the document when none lies after it.  *)
Matches(t, term) ==
    {o \in 0..(Len(t) - Len(term)) : Slice(t, o, o + Len(term)) = term}
SetMin(S) == CHOOSE x \in S : \A y \in S : x <= y
NextMatch(t, term, from) ==
    IF {o \in Matches(t, term) : o > from} # {}
    THEN SetMin({o \in Matches(t, term) : o > from})
    ELSE SetMin(Matches(t, term))

C8_FindNextWraps ==
    [][(last'.cmd = "Find" /\ last'.arg # <<>>
          /\ Matches(text, last'.arg) # {})
          => cursor' = NextMatch(text, last'.arg, cursor)]_vars

(* C9: a Cut with no active selection leaves text, cursor and clipboard    *)
(* unchanged, raises nothing and reports "No Selection".                   *)
C9_CutWithoutSelection ==
    [][(last'.cmd = "Cut" /\ selection = NoSelection)
          => /\ UNCHANGED <<text, cursor, clipboard>>
             /\ raised' = "none"
             /\ message' = Msg("No Selection")]_vars

C9_Witness ==
    /\ last.cmd = "Cut" /\ raised = "none" /\ selection = NoSelection
    /\ message = Msg("No Selection")

(* C10: an Undo with an empty undo stack leaves text and cursor unchanged  *)
(* and its reported outcome differs from that of a performed undo.         *)
C10_UndoEmptyReportsFalse ==
    [][(last'.cmd = "Undo" /\ undo_stack = <<>>)
          => (text' = text /\ cursor' = cursor /\ message' # Msg("Undo"))]_vars

C12_CursorValid ==
    /\ line_count(text) >= 1
    /\ cursor >= 0
    /\ cursor_position_row(text, cursor) >= 0
    /\ cursor_position_row(text, cursor) < line_count(text)
    /\ cursor_position_col(text, cursor) >= 0
    /\ cursor_position_col(text, cursor)
          <= Len(SplitLines(text)[cursor_position_row(text, cursor) + 1])

C12_Witness ==
    /\ last.cmd = "GoTo" /\ isdigit(last.arg) /\ int(last.arg) > line_count(text)
    /\ line_count(text) = 2 /\ cursor_position_row(text, cursor) = 1

(* C13: a Find whose term is empty or does not occur in the text raises no *)
(* error and leaves the cursor and the text unchanged.                     *)
C13_FindNoMatch ==
    [][(last'.cmd = "Find"
          /\ (last'.arg = <<>> \/ Matches(text, last'.arg) = {}))
          => (raised' = "none" /\ cursor' = cursor /\ text' = text)]_vars

(* C14: for every valid offset o of the text, offset -> (row, col) ->      *)
(* offset is the identity, and for every valid position p, translating the *)
(* position of translate(p) gives translate(p) again.                      *)
RoundTrip(t, o) ==
    translate_row_col_to_index(t, cursor_position_row(t, o),
                               cursor_position_col(t, o))
ValidPositions(t) ==
    {p \in (0..(line_count(t) - 1)) \X (0..Len(t)) :
        p[2] <= Len(SplitLines(t)[p[1] + 1])}

C14_CoordinateRoundTrip ==
    /\ \A o \in 0..Len(text) : RoundTrip(text, o) = o
    /\ \A p \in ValidPositions(text) :
          RoundTrip(text, translate_row_col_to_index(text, p[1], p[2]))
             = translate_row_col_to_index(text, p[1], p[2])

C14_Witness ==
    /\ line_count(text) = 2
    /\ cursor_position_row(text, cursor) = 1
    /\ cursor_position_col(text, cursor) = 1
    /\ RoundTrip(text, cursor) = cursor

(* C15: after a Go-to-line with a numeric input n the cursor is at column 0 *)
(* and the line number shown in the message equals the cursor row + 1.     *)
C15_GoToLineMessageMatchesRow ==
    [][(last'.cmd = "GoTo" /\ isdigit(last'.arg))
          => /\ cursor_position_col(text', cursor') = 0
             /\ message' = LineMsg(cursor_position_row(text', cursor') + 1)]_vars

(* C16: the file changes only in a successful Save, which makes it equal   *)
(* to the buffer text; no other command (Quit included) writes it.         *)
C16_OnlySaveWritesFile ==
    [][disk' # disk
          => (last'.cmd = "Save" /\ raised' = "none" /\ disk' = File(text))]_vars

(* C17: a Cut with an active selection of non-empty text t puts exactly t  *)
(* on the clipboard and removes exactly t from the text.                   *)
SelectionFrom == Min(selection, cursor)
SelectionTo == Max(selection, cursor)
SelectedText ==
    IF selection = NoSelection THEN <<>>
    ELSE Slice(text, SelectionFrom, SelectionTo)

C17_CutPasteRoundTrip ==
    [][(last'.cmd = "Cut" /\ selection # NoSelection /\ SelectedText # <<>>)
          => /\ clipboard' = SelectedText
             /\ text' = Slice(text, 0, SelectionFrom)
                          \o Slice(text, SelectionTo, Len(text))]_vars

(* C18: Copy never changes text or cursor; with a non-empty selection it   *)
(* sets the clipboard to the selected text and the message to "Copied";    *)
(* without a selection it reports "No Selection" and keeps the clipboard;  *)
(* with an empty selection it changes neither clipboard nor message.       *)
C18_CopyFrame ==
    [][last'.cmd = "Copy"
          => /\ text' = text /\ cursor' = cursor
             /\ (selection # NoSelection /\ SelectedText # <<>>)
                   => (clipboard' = SelectedText /\ message' = Msg("Copied"))
             /\ selection = NoSelection
                   => (clipboard' = clipboard /\ message' = Msg("No Selection"))
             /\ (selection # NoSelection /\ SelectedText = <<>>)
                   => (clipboard' = clipboard /\ message' = message)]_vars

====
